---- MODULE Spec2Model ----
(***************************************************************************)
(* Conversation synchronization engine of the messenger front end: the     *)
(* inbox, messages and user slices (Redux reducers), the effects and       *)
(* handlers of the Inbox, Conversation and NewMessageModal components, and *)
(* the requests they keep in flight against the message-store API.         *)
(*                                                                         *)
(* Text (message bodies, previews) is a sequence of one-character strings, *)
(* so that trim, length and substring are computed, not assumed.           *)
(***************************************************************************)
EXTENDS Integers, Sequences, FiniteSets, TLC

(***************************************************************************)
(* Bounds of the model.                                                    *)
(***************************************************************************)
InboxGestures == 3    \* user gestures (clicks, keystrokes, scrolls) in a session
                      \* at the inbox list
SendGestures == 4     \* ... in a session at the conversation pane
GroupGestures == 5    \* ... in a session at the compose dialog
UnreadGestures == 2   \* ... in a session with the conversation pane left open
UnreadFairGestures == 1   \* ... in such a session, where the timer is fair
ReducerSteps == 2
ComposeGestures == 4
MaxKeyLen == 3
LongLen == 32         \* length of the long message body
MaxPayload == 2       \* entries in one merge payload
PatchShortLen == 10   \* length of a body that updateLastMessage keeps whole
PatchLongLen == 35    \* length of a body that updateLastMessage truncates

(***************************************************************************)
(* Program constants.                                                      *)
(***************************************************************************)
PreviewLimit == 30    \* updateLastMessage: message.length > 30

Null == "null"
NoTimer == "-"
NoUnreadTimer == 0
Ellipsis == <<".", ".", ".">>
NoField == <<"undefined">>

(***************************************************************************)
(* Text helpers.                                                           *)
(***************************************************************************)
RECURSIVE TrimLeft(_)
TrimLeft(s) == IF s # <<>> /\ Head(s) = " " THEN TrimLeft(Tail(s)) ELSE s

RECURSIVE TrimRight(_)
TrimRight(s) ==
    IF s # <<>> /\ s[Len(s)] = " " THEN TrimRight(SubSeq(s, 1, Len(s) - 1)) ELSE s

\* a trim that leaves the text as it is
TrimNothing(s) == s

\* String.prototype.trim
Trim(s) == TrimRight(TrimLeft(s))

\* message.substring(0, n)
Substring0(s, n) == SubSeq(s, 1, IF Len(s) < n THEN Len(s) ELSE n)

EmptyBody == <<>>
BlankBody == <<" ">>
ShortBody == <<"h", "i">>
LongBody == [i \in 1..LongLen |-> "x"]
Bodies == {EmptyBody, BlankBody, ShortBody, LongBody}

(***************************************************************************)
(* The remote message store, as seen through data/service.js: three        *)
(* conversations, two inbox pages for the empty search, two pages per      *)
(* conversation.  Responses are camelCased by the service.                 *)
(***************************************************************************)
Peers == {"a", "b", "c"}
AuthUser == "me"
Queries == {"", "c", "z"}

InboxId(p) == CASE p = "a" -> 1 [] p = "b" -> 2 [] OTHER -> 3
ServerUnread(p) == CASE p = "a" -> 2 [] p = "b" -> 0 [] OTHER -> 1

InboxEntry(p, preview, unread) ==
    [id |-> InboxId(p), withUser |-> p, lastMessage |-> preview,
     unreadCount |-> unread, last_message |-> NoField]

ServerEntry(p) == InboxEntry(p, <<"o", "l", "d">>, ServerUnread(p))

\* GET /inbox/?page=&search= : the pages of results for a search text
InboxPages(q) ==
    CASE q = "" -> << <<ServerEntry("a"), ServerEntry("b")>>, <<ServerEntry("c")>> >>
      [] q = "c" -> << <<ServerEntry("c")>> >>
      [] OTHER -> << <<>> >>

ServerMessage(p, k) ==
    [id |-> 10 * InboxId(p) + k, sender |-> p, created |-> "t",
     message |-> <<"m">>, conv |-> {p}]

\* GET /conversation/?page=&with_user= : the pages of one conversation
ConversationPages(p) == << <<ServerMessage(p, 1)>>, <<ServerMessage(p, 2)>> >>

PeerOfId(id) == CHOOSE p \in Peers : InboxId(p) = id

\* PATCH /inbox/{id}/ { unread_count: 0 } : the updated inbox entry
ClearedEntry(id) == InboxEntry(PeerOfId(id), <<"o", "l", "d">>, 0)

\* POST /message/ : the created message
CreatedMessage(receiver, body) ==
    [id |-> 10 * InboxId(receiver) + 9, sender |-> AuthUser, created |-> "t",
     message |-> body, conv |-> {receiver}]

\* POST /bulk_message/ : one updated inbox entry per receiver, in order
GroupResult(receivers, body) ==
    [i \in 1..Len(receivers) |->
        InboxEntry(receivers[i], body, ServerUnread(receivers[i]))]

(***************************************************************************)
(* Sequence helpers (Array.prototype.map / filter / includes / some).      *)
(***************************************************************************)
Range(s) == {s[i] : i \in 1..Len(s)}
Ids(list) == [i \in 1..Len(list) |-> list[i].id]
Includes(s, x) == \E i \in 1..Len(s) : s[i] = x
RemoveAt(s, i) == SubSeq(s, 1, i - 1) \o SubSeq(s, i + 1, Len(s))

(***************************************************************************)
(* inboxSlice: initial state and reducers.                                 *)
(***************************************************************************)
InboxInitialState ==
    [list |-> <<>>, selectedUser |-> "", loading |-> FALSE, hasMore |-> FALSE,
     pageNumber |-> 1, searchQuery |-> "", error |-> Null]

setSelectedUser(state, payload) == [state EXCEPT !.selectedUser = payload]

setSearchQuery(state, payload) ==
    [state EXCEPT !.searchQuery = payload, !.pageNumber = 1]

inbox_incrementPageNumber(state) == [state EXCEPT !.pageNumber = @ + 1]

resetPageNumber(state) == [state EXCEPT !.pageNumber = 1]

\* a preview that is the whole message
PreviewOfWhole(message) == message

\* the preview written by updateLastMessage
PreviewOf(message) ==
    IF Len(message) > PreviewLimit
        THEN Substring0(message, PreviewLimit) \o Ellipsis
        ELSE message

\* a patch that does not look at the peer of the entries
updateLastMessageAll(state, username, message) ==
    [state EXCEPT !.list =
        [i \in 1..Len(state.list) |->
            [state.list[i] EXCEPT !.last_message = PreviewOf(message)]]]

updateLastMessage(state, username, message) ==
    [state EXCEPT !.list =
        [i \in 1..Len(state.list) |->
            IF state.list[i].withUser = username
                THEN [state.list[i] EXCEPT !.last_message = PreviewOf(message)]
                ELSE state.list[i]]]

\* a merge that keeps the updated entries only
MergeOnlyUpdated(list, updatedInbox) == updatedInbox

MergeNoFilter(list, updatedInbox) == updatedInbox \o list

\* [...updatedInbox, ...state.list.filter(inbox => !updatedInboxIds.includes(inbox.id))]
MergeEntries(list, updatedInbox) ==
    LET updatedInboxIds == Ids(updatedInbox)
        Keep(inbox) == ~Includes(updatedInboxIds, inbox.id)
    IN  updatedInbox \o SelectSeq(list, Keep)

updateInboxList(state, payload) ==
    [state EXCEPT !.list = MergeEntries(state.list, payload)]

fetchInboxList_pending(state) == [state EXCEPT !.loading = TRUE, !.error = Null]

\* a fulfilled case that replaces the list whatever the page
fetchInboxList_fulfilledReplace(state, data, pageNumber) ==
    [state EXCEPT
        !.list = data.results,
        !.selectedUser =
            IF Len(data.results) > 0 THEN data.results[1].withUser ELSE @,
        !.hasMore = pageNumber < data.numPages,
        !.loading = FALSE]

fetchInboxList_fulfilled(state, data, pageNumber) ==
    IF pageNumber = 1
        THEN [state EXCEPT
                !.list = data.results,
                !.selectedUser =
                    IF Len(data.results) > 0 THEN data.results[1].withUser ELSE @,
                !.hasMore = pageNumber < data.numPages,
                !.loading = FALSE]
        ELSE [state EXCEPT
                !.list = @ \o data.results,
                !.hasMore = pageNumber < data.numPages,
                !.loading = FALSE]

fetchInboxList_rejected(state, payload) ==
    [state EXCEPT !.loading = FALSE, !.error = payload]

\* a fulfilled case that moves the updated entry to the top, as a merge does
updateUnreadCount_fulfilledOnTop(state, updatedInbox) ==
    [state EXCEPT !.list = MergeEntries(state.list, <<updatedInbox>>)]

updateUnreadCount_fulfilled(state, updatedInbox) ==
    [state EXCEPT !.list =
        [i \in 1..Len(state.list) |->
            IF state.list[i].id = updatedInbox.id THEN updatedInbox ELSE state.list[i]]]

createGroupMessages_fulfilled(state, updatedInbox) ==
    [state EXCEPT !.list = MergeEntries(state.list, updatedInbox)]

createGroupMessages_rejected(state) == state

(***************************************************************************)
(* messagesSlice: initial state and reducers.                              *)
(***************************************************************************)
MessagesInitialState ==
    [list |-> <<>>, loading |-> FALSE, hasMore |-> FALSE, pageNumber |-> 1,
     error |-> Null, isReplying |-> FALSE, currentMessage |-> <<>>]

messages_incrementPageNumber(state) == [state EXCEPT !.pageNumber = @ + 1]

\* a reset that empties the list and leaves the rest of the store
resetMessagesListOnly(state) == [state EXCEPT !.list = <<>>]

resetMessages(state) ==
    [state EXCEPT !.list = <<>>, !.pageNumber = 1, !.hasMore = FALSE,
                  !.isReplying = FALSE, !.currentMessage = <<>>]

setIsReplying(state, payload) == [state EXCEPT !.isReplying = payload]

setCurrentMessage(state, payload) == [state EXCEPT !.currentMessage = payload]

addMessageToList(state, payload) == [state EXCEPT !.list = <<payload>> \o @]

clearCurrentMessage(state) ==
    [state EXCEPT !.currentMessage = <<>>, !.isReplying = FALSE]

fetchMessages_pending(state) == [state EXCEPT !.loading = TRUE, !.error = Null]

fetchMessages_fulfilled(state, data, pageNumber) ==
    IF pageNumber = 1
        THEN [state EXCEPT
                !.list = data.results,
                !.hasMore = pageNumber < data.numPages,
                !.loading = FALSE]
        ELSE [state EXCEPT
                !.list = @ \o data.results,
                !.hasMore = pageNumber < data.numPages,
                !.loading = FALSE]

fetchMessages_rejected(state, payload) ==
    [state EXCEPT !.loading = FALSE, !.error = payload]

createMessage_fulfilled(state, payload) ==
    [state EXCEPT !.list = <<payload>> \o @, !.currentMessage = <<>>,
                  !.isReplying = FALSE]

createMessage_rejected(state) == state

(***************************************************************************)
(* userSlice: initial state and reducers.                                  *)
(***************************************************************************)
UserInitialState ==
    [currentUser |-> [username |-> "", name |-> "", profileName |-> <<>>,
                      hasProfileImage |-> FALSE, profileImage |-> ""],
     searchResults |-> <<>>, loading |-> FALSE, error |-> Null]

\* user names getAuthenticatedUser() may give
ProfileUsernames ==
    {"me", "ada lovelace", "a", "bob", "BOB", "ab ", "a  b", "al b c", "c d"}

\* the characters of a user name (a JavaScript string indexed by position)
Chars(username) ==
    CASE username = "me" -> <<"m", "e">>
      [] username = "ada lovelace" ->
            <<"a", "d", "a", " ", "l", "o", "v", "e", "l", "a", "c", "e">>
      [] username = "bob" -> <<"b", "o", "b">>
      [] username = "BOB" -> <<"B", "O", "B">>
      [] username = "ab " -> <<"a", "b", " ">>
      [] username = "a  b" -> <<"a", " ", " ", "b">>
      [] username = "al b c" -> <<"a", "l", " ", "b", " ", "c">>
      [] username = "c d" -> <<"c", " ", "d">>
      [] OTHER -> <<username>>

\* position of the first space of s, or 0
RECURSIVE FirstSpace(_, _)
FirstSpace(s, i) ==
    IF i > Len(s) THEN 0 ELSE IF s[i] = " " THEN i ELSE FirstSpace(s, i + 1)

\* username.split(' ')[1], NoField when there is no second token
SecondToken(s) ==
    LET i == FirstSpace(s, 1)
        rest == SubSeq(s, i + 1, Len(s))
        j == FirstSpace(rest, 1)
    IN  IF i = 0 THEN NoField
        ELSE IF j = 0 THEN rest ELSE SubSeq(rest, 1, j - 1)

\* `${username[0]}${username.split(' ')[1] ? username.split(' ')[1][0] : username[1] || ''}`
ProfileName(s) ==
    LET second == SecondToken(s)
    IN  <<s[1]>> \o
        (IF second # NoField /\ second # <<>> THEN <<second[1]>>
         ELSE IF Len(s) >= 2 THEN <<s[2]>> ELSE <<>>)

\* profileData?.profileImage?.hasImage || false
HasImage(profileData) ==
    IF "hasImage" \in DOMAIN profileData THEN profileData.hasImage ELSE FALSE

\* profileData?.profileImage?.imageUrlFull || ''
ImageUrlFull(profileData) ==
    IF "imageUrlFull" \in DOMAIN profileData THEN profileData.imageUrlFull ELSE ""

fetchUserProfile_fulfilled(state, profileData, username) ==
    [state EXCEPT !.currentUser =
        [username |-> username, name |-> username,
         profileName |-> ProfileName(Chars(username)),
         hasProfileImage |-> HasImage(profileData),
         profileImage |-> ImageUrlFull(profileData)]]

\* a rejected case that records the failure in the store
fetchUserProfile_rejectedRecord(state) == [state EXCEPT !.error = "err"]

fetchUserProfile_rejected(state) == state

clearSearchResults(state) == [state EXCEPT !.searchResults = <<>>]

searchUsers_pending(state) == [state EXCEPT !.loading = TRUE]

\* a fulfilled case that adds the users found to those already listed
searchUsers_fulfilledAppend(state, results) ==
    [state EXCEPT
        !.searchResults =
            @ \o [i \in 1..Len(results) |->
                    [id |-> results[i].username, username |-> results[i].username]],
        !.loading = FALSE]

searchUsers_fulfilled(state, results) ==
    [state EXCEPT
        !.searchResults =
            [i \in 1..Len(results) |->
                [id |-> results[i].username, username |-> results[i].username]],
        !.loading = FALSE]

searchUsers_rejected(state) == [state EXCEPT !.loading = FALSE]

\* GET accounts/{username}, after processAccountData: the profileImage part
AccountProfile == [hasImage |-> TRUE, imageUrlFull |-> "img"]

\* processedData.profileImage || {} : an account without profile image data
NoProfileImage == [field \in {} |-> ""]

\* the profileImage part of an account with an image, of one whose image is
\* not set, and of one without profile image data
AccountProfiles ==
    {AccountProfile, [hasImage |-> FALSE, imageUrlFull |-> ""], NoProfileImage}

\* GET /user/?search= : the users found
UserQueries == {"", "u"}
FoundUsers(query) ==
    << [id |-> 101, username |-> "a", email |-> "a@x"],
       [id |-> 102, username |-> "b", email |-> "b@x"] >>

(***************************************************************************)
(* State: the three slices of the store, the component state of the        *)
(* compose dialog, the timers, and the requests in flight.                 *)
(***************************************************************************)
VARIABLES
    inbox,          \* state.inbox
    messages,       \* state.messages
    user,           \* state.user
    modal,          \* NewMessageModal: groupMessage, selectedUsers
    mounted,        \* MessengerContent has been rendered, its effects have run
    searchTimer,    \* the pending debounce timer: the query it captured, or NoTimer
    unreadTimer,    \* the pending mark-as-read timer: the inbox id it captured, or 0
    unreadReqs,     \* updateUnreadCount thunks awaiting their response
    inboxReqs,      \* fetchInboxList thunks awaiting their response
    msgReqs,        \* fetchMessages thunks awaiting their response
    sendReqs,       \* createMessage thunks awaiting their response
    groupReqs,      \* createGroupMessages thunks awaiting their response
    userReqs,       \* searchUsers thunks awaiting their response
    profileReq,     \* the user name getAccountService was called for and whose
                    \* response fetchUserProfile awaits, or ""
    gestures,       \* user gestures (clicks, keystrokes, scrolls) left in the session
    lastOp          \* the handler or reducer that ran last (history)

vars == <<inbox, messages, user, modal, mounted, searchTimer, unreadTimer,
          inboxReqs, msgReqs, sendReqs, groupReqs, userReqs, unreadReqs,
          profileReq, gestures, lastOp>>

Op(name, arg) == [op |-> name, arg |-> arg]

ModalInitialState == [groupMessage |-> <<>>, selectedUsers |-> <<>>]

InitStores(inbox0, user0, budget) ==
    /\ inbox = inbox0
    /\ messages = MessagesInitialState
    /\ user = user0
    /\ modal = ModalInitialState
    /\ mounted = FALSE
    /\ searchTimer = NoTimer
    /\ unreadTimer = NoUnreadTimer
    /\ unreadReqs = <<>>
    /\ inboxReqs = <<>>
    /\ msgReqs = <<>>
    /\ sendReqs = <<>>
    /\ groupReqs = <<>>
    /\ userReqs = <<>>
    /\ profileReq = ""
    /\ gestures = budget
    /\ lastOp = Op("init", "")

InitFrom(inbox0, budget) == InitStores(inbox0, UserInitialState, budget)

InitWith(budget) == InitFrom(InboxInitialState, budget)

Init == InitWith(InboxGestures)

(***************************************************************************)
(* Effects.  After a render in which the store went from `old` to `new`,   *)
(* an effect runs when one of its dependencies changed.                    *)
(***************************************************************************)
InboxReq(page, query) == [pageNumber |-> page, searchQuery |-> query]
MsgReq(page, username) == [pageNumber |-> page, username |-> username]

\* Inbox: "Handle search with debounce", the branch that fetches at once
SearchEffectReqs(old, new) ==
    IF new.searchQuery # old.searchQuery /\ new.searchQuery = "" /\ new.pageNumber = 1
        THEN <<InboxReq(1, "")>>
        ELSE <<>>

\* the search effect without its cleanup: a pending timer outlives the change
SearchEffectTimerNoCleanup(old, new, timer) ==
    IF new.searchQuery # old.searchQuery /\ new.searchQuery # ""
        THEN new.searchQuery
        ELSE timer

\* the search effect whose cleanup leaves a pending timer in place
SearchEffectTimerKeepOld(old, new, timer) ==
    IF new.searchQuery # old.searchQuery
        THEN IF new.searchQuery = "" THEN NoTimer
             ELSE IF timer # NoTimer THEN timer ELSE new.searchQuery
        ELSE timer

\* Inbox: "Handle search with debounce", the timer: cleanup, then setTimeout
SearchEffectTimer(old, new, timer) ==
    IF new.searchQuery # old.searchQuery
        THEN IF new.searchQuery # "" THEN new.searchQuery ELSE NoTimer
        ELSE timer

\* Inbox: "Handle pagination"
InboxPaginationReqs(old, new) ==
    IF new.pageNumber # old.pageNumber /\ new.pageNumber > 1
        THEN <<InboxReq(new.pageNumber, new.searchQuery)>>
        ELSE <<>>

\* a fetch-on-select effect that runs for the first selection only
SelectedUserReqsFirstOnly(oldInbox, newInbox) ==
    IF oldInbox.selectedUser = "" /\ newInbox.selectedUser # ""
        THEN <<MsgReq(1, newInbox.selectedUser)>>
        ELSE <<>>

\* Conversation: "Fetch messages when user is selected"
SelectedUserReqs(oldInbox, newInbox) ==
    IF newInbox.selectedUser # oldInbox.selectedUser /\ newInbox.selectedUser # ""
        THEN <<MsgReq(1, newInbox.selectedUser)>>
        ELSE <<>>

\* Conversation: "Handle pagination"
MessagesPaginationReqs(oldInbox, newInbox, old, new) ==
    IF /\ \/ new.pageNumber # old.pageNumber
          \/ newInbox.selectedUser # oldInbox.selectedUser
       /\ newInbox.selectedUser # ""
       /\ new.pageNumber > 1
        THEN <<MsgReq(new.pageNumber, newInbox.selectedUser)>>
        ELSE <<>>

\* inboxList.find(inbox => inbox.withUser === selectedUser): its position, or 0
FindInbox(list, username) ==
    IF \E i \in 1..Len(list) : list[i].withUser = username
        THEN CHOOSE i \in 1..Len(list) :
                /\ list[i].withUser = username
                /\ \A j \in 1..(i - 1) : list[j].withUser # username
        ELSE 0

\* a mark-as-read effect that never sets its timer
MarkReadTimerNever(i1) == NoUnreadTimer

\* Conversation: "Mark messages as read after 3 seconds", the timer it sets
MarkReadTimer(i1) ==
    LET k == FindInbox(i1.list, i1.selectedUser)
    IN  IF i1.selectedUser = "" \/ Len(i1.list) = 0 THEN NoUnreadTimer
        ELSE IF k # 0 /\ i1.list[k].unreadCount # 0 THEN i1.list[k].id
        ELSE NoUnreadTimer

\* a mark-as-read effect that depends on the list array only
MarkReadEffectTimerListOnly(old, new, newList, timer) ==
    IF newList THEN MarkReadTimer(new) ELSE timer

\* the effect runs (cleanup, then body) when selectedUser or the list array
\* is another one than in the last render
MarkReadEffectTimer(old, new, newList, timer) ==
    IF new.selectedUser # old.selectedUser \/ newList
        THEN MarkReadTimer(new)
        ELSE timer

\* The render after a handler or a response: i1 and m1 are the slices the
\* reducers left, iq and mq the requests still in flight, timer the debounce
\* timer.  The effects dispatch their thunks, whose pending reducers run.
Render(i1, m1, iq, mq, timer, newList) ==
    LET ir == SearchEffectReqs(inbox, i1) \o InboxPaginationReqs(inbox, i1)
        mr == SelectedUserReqs(inbox, i1)
                \o MessagesPaginationReqs(inbox, i1, messages, m1)
    IN  /\ inbox' = IF ir # <<>> THEN fetchInboxList_pending(i1) ELSE i1
        /\ messages' = IF mr # <<>> THEN fetchMessages_pending(m1) ELSE m1
        /\ inboxReqs' = iq \o ir
        /\ msgReqs' = mq \o mr
        /\ searchTimer' = SearchEffectTimer(inbox, i1, timer)
        /\ unreadTimer' = MarkReadEffectTimer(inbox, i1, newList, unreadTimer)

\* a render after reducers that build a new list array only when they change it
Settle(i1, m1, iq, mq, timer) ==
    Render(i1, m1, iq, mq, timer, i1.list # inbox.list)

\* a step taken by the user, and one taken by a timer or a response
Gesture == gestures > 0 /\ gestures' = gestures - 1
System == UNCHANGED gestures

(***************************************************************************)
(* Mount: the effects of Inbox, Conversation and MessengerContent run for  *)
(* the first time.                                                         *)
(***************************************************************************)
\* a first render in which MessengerContent does not load the profile
MountInboxOnly(username) ==
    /\ ~mounted
    /\ mounted' = TRUE
    /\ inbox' = fetchInboxList_pending(fetchInboxList_pending(inbox))
    /\ inboxReqs' = <<InboxReq(1, ""), InboxReq(1, "")>>
    /\ profileReq' = ""
    /\ System
    /\ lastOp' = Op("mount", "")
    /\ UNCHANGED <<messages, user, modal, searchTimer, unreadTimer, msgReqs,
                   sendReqs, groupReqs, userReqs, unreadReqs>>

\* `username` is getAuthenticatedUser()?.username, "" when nobody is signed
\* in: fetchUserProfile then throws before it calls getAccountService, and
\* its rejected case runs
MountAs(username) ==
    /\ ~mounted
    /\ mounted' = TRUE
    /\ inbox' = fetchInboxList_pending(fetchInboxList_pending(inbox))
    /\ inboxReqs' = <<InboxReq(1, ""), InboxReq(1, "")>>
    /\ profileReq' = username
    /\ user' = IF username = "" THEN fetchUserProfile_rejected(user) ELSE user
    /\ System
    /\ lastOp' = Op("mount", "")
    /\ UNCHANGED <<messages, modal, searchTimer, unreadTimer, msgReqs,
                   sendReqs, groupReqs, userReqs, unreadReqs>>

Mount == MountAs(AuthUser)

(***************************************************************************)
(* Inbox component.                                                        *)
(***************************************************************************)
handleSearchChange(value) ==
    /\ mounted
    /\ value # inbox.searchQuery
    /\ Settle(setSearchQuery(inbox, value), messages, inboxReqs, msgReqs, searchTimer)
    /\ Gesture
    /\ lastOp' = Op("handleSearchChange", searchTimer)
    /\ UNCHANGED <<user, modal, mounted, sendReqs, groupReqs, userReqs, unreadReqs,
                   profileReq>>

handleClearSearch ==
    /\ mounted
    /\ inbox.searchQuery # ""
    /\ Settle(setSearchQuery(inbox, ""), messages, inboxReqs, msgReqs, searchTimer)
    /\ Gesture
    /\ lastOp' = Op("handleClearSearch", searchTimer)
    /\ UNCHANGED <<user, modal, mounted, sendReqs, groupReqs, userReqs, unreadReqs,
                   profileReq>>

\* the setTimeout callback of the search effect
DebounceFire ==
    /\ searchTimer # NoTimer
    /\ Settle(fetchInboxList_pending(resetPageNumber(inbox)), messages,
              Append(inboxReqs, InboxReq(1, searchTimer)), msgReqs, NoTimer)
    /\ System
    /\ lastOp' = Op("debounce", searchTimer)
    /\ UNCHANGED <<user, modal, mounted, sendReqs, groupReqs, userReqs, unreadReqs,
                   profileReq>>

\* the IntersectionObserver callback set by lastInboxRef
InboxScroll ==
    /\ mounted
    /\ ~inbox.loading
    /\ inbox.list # <<>>
    /\ inbox.hasMore
    /\ Settle(inbox_incrementPageNumber(inbox), messages, inboxReqs, msgReqs,
              searchTimer)
    /\ Gesture
    /\ lastOp' = Op("inboxScroll", "")
    /\ UNCHANGED <<user, modal, mounted, sendReqs, groupReqs, userReqs, unreadReqs,
                   profileReq>>

handleInboxClick(username) ==
    /\ mounted
    /\ \E i \in 1..Len(inbox.list) : inbox.list[i].withUser = username
    /\ Settle(setSelectedUser(inbox, username), resetMessages(messages), inboxReqs,
              msgReqs, searchTimer)
    /\ Gesture
    /\ lastOp' = Op("handleInboxClick", username)
    /\ UNCHANGED <<user, modal, mounted, sendReqs, groupReqs, userReqs, unreadReqs,
                   profileReq>>

\* the response to a fetchInboxList request: fulfilled or rejected
InboxResponse(k, ok) ==
    /\ k \in 1..Len(inboxReqs)
    /\ LET req == inboxReqs[k]
           pages == InboxPages(req.searchQuery)
           data == [results |-> pages[req.pageNumber], numPages |-> Len(pages)]
       IN  /\ ok => req.pageNumber <= Len(pages)
           /\ Render(IF ok THEN fetchInboxList_fulfilled(inbox, data, req.pageNumber)
                           ELSE fetchInboxList_rejected(inbox, "err"),
                     messages, RemoveAt(inboxReqs, k), msgReqs, searchTimer, ok)
           /\ System
           /\ lastOp' = Op(IF ok THEN "fetchInboxList.fulfilled"
                                 ELSE "fetchInboxList.rejected", "")
    /\ UNCHANGED <<user, modal, mounted, sendReqs, groupReqs, userReqs, unreadReqs,
                   profileReq>>

(***************************************************************************)
(* Conversation component.                                                 *)
(***************************************************************************)
\* the IntersectionObserver callback set by lastMessageRef
ConversationScroll ==
    /\ mounted
    /\ ~messages.loading
    /\ messages.list # <<>>
    /\ messages.hasMore
    /\ Settle(inbox, messages_incrementPageNumber(messages), inboxReqs, msgReqs,
              searchTimer)
    /\ Gesture
    /\ lastOp' = Op("conversationScroll", "")
    /\ UNCHANGED <<user, modal, mounted, sendReqs, groupReqs, userReqs, unreadReqs,
                   profileReq>>

\* the response to a fetchMessages request: fulfilled or rejected
MessagesResponse(k, ok) ==
    /\ k \in 1..Len(msgReqs)
    /\ LET req == msgReqs[k]
           pages == ConversationPages(req.username)
           data == [results |-> pages[req.pageNumber], numPages |-> Len(pages)]
       IN  /\ ok => req.pageNumber <= Len(pages)
           /\ Settle(inbox,
                     IF ok THEN fetchMessages_fulfilled(messages, data, req.pageNumber)
                           ELSE fetchMessages_rejected(messages, "err"),
                     inboxReqs, RemoveAt(msgReqs, k), searchTimer)
           /\ System
           /\ lastOp' = Op(IF ok THEN "fetchMessages.fulfilled"
                                 ELSE "fetchMessages.rejected", "")
    /\ UNCHANGED <<user, modal, mounted, sendReqs, groupReqs, userReqs, unreadReqs,
                   profileReq>>

\* the Reply button is rendered when there are messages, no load, no reply
handleReplyClick ==
    /\ mounted
    /\ Len(messages.list) > 0 /\ ~messages.loading /\ ~messages.isReplying
    /\ Settle(inbox, setIsReplying(messages, TRUE), inboxReqs, msgReqs, searchTimer)
    /\ Gesture
    /\ lastOp' = Op("handleReplyClick", "")
    /\ UNCHANGED <<user, modal, mounted, sendReqs, groupReqs, userReqs, unreadReqs,
                   profileReq>>

handleInputChange(value) ==
    /\ mounted
    /\ messages.isReplying
    /\ value # messages.currentMessage
    /\ Settle(inbox, setCurrentMessage(messages, value), inboxReqs, msgReqs,
              searchTimer)
    /\ Gesture
    /\ lastOp' = Op("handleInputChange", "")
    /\ UNCHANGED <<user, modal, mounted, sendReqs, groupReqs, userReqs, unreadReqs,
                   profileReq>>

handleCancelReply ==
    /\ mounted
    /\ messages.isReplying
    /\ Settle(inbox, clearCurrentMessage(messages), inboxReqs, msgReqs, searchTimer)
    /\ Gesture
    /\ lastOp' = Op("handleCancelReply", "")
    /\ UNCHANGED <<user, modal, mounted, sendReqs, groupReqs, userReqs, unreadReqs,
                   profileReq>>

SendReq(receiver, message) == [receiver |-> receiver, message |-> message]

\* dispatch(createMessage(...)): the thunk has no pending reducer
handleSendMessage ==
    /\ mounted
    /\ messages.isReplying
    /\ Trim(messages.currentMessage) # <<>>
    /\ sendReqs' = Append(sendReqs, SendReq(inbox.selectedUser, messages.currentMessage))
    /\ Gesture
    /\ lastOp' = Op("handleSendMessage", inbox.selectedUser)
    /\ UNCHANGED <<inbox, messages, user, modal, mounted, searchTimer, unreadTimer,
                   inboxReqs, msgReqs, groupReqs, userReqs, unreadReqs, profileReq>>

\* the response to a createMessage request, then the .then() callback of
\* handleSendMessage, which runs whether the thunk was fulfilled or rejected
SendResponse(k, ok) ==
    /\ k \in 1..Len(sendReqs)
    /\ LET req == sendReqs[k]
           m1 == IF ok THEN createMessage_fulfilled(
                                messages, CreatedMessage(req.receiver, req.message))
                       ELSE createMessage_rejected(messages)
       IN  /\ Render(updateLastMessage(inbox, req.receiver, req.message), m1,
                     inboxReqs, msgReqs, searchTimer, TRUE)
           /\ System
           /\ lastOp' = Op(IF ok THEN "createMessage.fulfilled"
                                 ELSE "createMessage.rejected", "")
    /\ sendReqs' = RemoveAt(sendReqs, k)
    /\ UNCHANGED <<user, modal, mounted, groupReqs, userReqs, unreadReqs, profileReq>>

\* the setTimeout callback of the mark-as-read effect; updateUnreadCount has
\* no pending reducer
MarkReadFire ==
    /\ unreadTimer # NoUnreadTimer
    /\ unreadReqs' = Append(unreadReqs, unreadTimer)
    /\ unreadTimer' = NoUnreadTimer
    /\ System
    /\ lastOp' = Op("markRead", PeerOfId(unreadTimer))
    /\ UNCHANGED <<inbox, messages, user, modal, mounted, searchTimer, inboxReqs,
                   msgReqs, sendReqs, groupReqs, userReqs, profileReq>>

\* the response to an updateUnreadCount request: fulfilled or rejected
UnreadResponse(k, ok) ==
    /\ k \in 1..Len(unreadReqs)
    /\ unreadReqs' = RemoveAt(unreadReqs, k)
    /\ IF ok
          THEN Render(updateUnreadCount_fulfilled(inbox, ClearedEntry(unreadReqs[k])),
                      messages, inboxReqs, msgReqs, searchTimer, TRUE)
          ELSE UNCHANGED <<inbox, messages, inboxReqs, msgReqs, searchTimer,
                           unreadTimer>>
    /\ System
    /\ lastOp' = Op(IF ok THEN "updateUnreadCount.fulfilled"
                          ELSE "updateUnreadCount.rejected",
                    PeerOfId(unreadReqs[k]))
    /\ UNCHANGED <<user, modal, mounted, sendReqs, groupReqs, userReqs, profileReq>>

(***************************************************************************)
(* NewMessageModal component.                                              *)
(***************************************************************************)
\* Multiselect onSearch: nothing is dispatched for an empty text
handleSearch(query) ==
    /\ mounted
    /\ IF query # ""
          THEN /\ user' = searchUsers_pending(user)
               /\ userReqs' = Append(userReqs, query)
          ELSE UNCHANGED <<user, userReqs>>
    /\ Gesture
    /\ lastOp' = Op("handleSearch", query)
    /\ UNCHANGED <<inbox, messages, modal, mounted, searchTimer, unreadTimer,
                   inboxReqs, msgReqs, sendReqs, groupReqs, unreadReqs, profileReq>>

UsersResponse(k, ok) ==
    /\ k \in 1..Len(userReqs)
    /\ user' = IF ok THEN searchUsers_fulfilled(user, FoundUsers(userReqs[k]))
                     ELSE searchUsers_rejected(user)
    /\ userReqs' = RemoveAt(userReqs, k)
    /\ System
    /\ lastOp' = Op(IF ok THEN "searchUsers.fulfilled"
                                 ELSE "searchUsers.rejected", "")
    /\ UNCHANGED <<inbox, messages, modal, mounted, searchTimer, unreadTimer,
                   inboxReqs, msgReqs, sendReqs, groupReqs, unreadReqs, profileReq>>

\* Multiselect onSelect: an option that is not selected yet is added
onSelect(k) ==
    /\ mounted
    /\ k \in 1..Len(user.searchResults)
    /\ ~Includes(modal.selectedUsers, user.searchResults[k])
    /\ modal' = [modal EXCEPT !.selectedUsers = Append(@, user.searchResults[k])]
    /\ Gesture
    /\ lastOp' = Op("onSelect", user.searchResults[k].username)
    /\ UNCHANGED <<inbox, messages, user, mounted, searchTimer, unreadTimer,
                   inboxReqs, msgReqs, sendReqs, groupReqs, userReqs, unreadReqs,
                   profileReq>>

\* Multiselect onRemove
onRemove(k) ==
    /\ mounted
    /\ k \in 1..Len(modal.selectedUsers)
    /\ modal' = [modal EXCEPT !.selectedUsers = RemoveAt(@, k)]
    /\ Gesture
    /\ lastOp' = Op("onRemove", "")
    /\ UNCHANGED <<inbox, messages, user, mounted, searchTimer, unreadTimer,
                   inboxReqs, msgReqs, sendReqs, groupReqs, userReqs, unreadReqs,
                   profileReq>>

setGroupMessage(value) ==
    /\ mounted
    /\ value # modal.groupMessage
    /\ modal' = [modal EXCEPT !.groupMessage = value]
    /\ Gesture
    /\ lastOp' = Op("setGroupMessage", "")
    /\ UNCHANGED <<inbox, messages, user, mounted, searchTimer, unreadTimer,
                   inboxReqs, msgReqs, sendReqs, groupReqs, userReqs, unreadReqs,
                   profileReq>>

\* what the .then() callback of handleSubmit closes over
GroupReq == 
    [receivers |-> [i \in 1..Len(modal.selectedUsers) |-> modal.selectedUsers[i].id],
     message |-> modal.groupMessage,
     selectedUsers |-> modal.selectedUsers,
     selectedUser |-> inbox.selectedUser,
     currentUser |-> user.currentUser]

\* the form is submitted: the handler returns at once when the body is blank
\* or nobody is selected
handleSubmit ==
    /\ mounted
    /\ IF Trim(modal.groupMessage) = <<>> \/ Len(modal.selectedUsers) = 0
          THEN UNCHANGED groupReqs
          ELSE groupReqs' = Append(groupReqs, GroupReq)
    /\ Gesture
    /\ lastOp' = Op("handleSubmit", inbox.selectedUser)
    /\ UNCHANGED <<inbox, messages, user, modal, mounted, searchTimer, unreadTimer,
                   inboxReqs, msgReqs, sendReqs, userReqs, unreadReqs, profileReq>>

\* the close buttons of the dialog (data-dismiss="modal"): the dialog is
\* hidden by its own script; no handler of the component runs
closeModal ==
    /\ mounted
    /\ Gesture
    /\ lastOp' = Op("closeModal", "")
    /\ UNCHANGED <<inbox, messages, user, modal, mounted, searchTimer, unreadTimer,
                   inboxReqs, msgReqs, sendReqs, groupReqs, userReqs, unreadReqs,
                   profileReq>>

\* the message handleSubmit adds to the list without a request
LocalMessage(req) ==
    [sender |-> req.currentUser.username,
     sender_img |-> req.currentUser.profileImage,
     created |-> "now",
     message |-> req.message,
     conv |-> Range(req.receivers)]

\* selectedUsers.some(user => user.username === selectedUser)
isConversationOpened(req) ==
    \E i \in 1..Len(req.selectedUsers) :
        req.selectedUsers[i].username = req.selectedUser

\* the response to a createGroupMessages request, then the .then() callback
\* of handleSubmit, which runs whether the thunk was fulfilled or rejected
GroupResponse(k, ok) ==
    /\ k \in 1..Len(groupReqs)
    /\ LET req == groupReqs[k]
           i1 == IF ok THEN createGroupMessages_fulfilled(
                                inbox, GroupResult(req.receivers, req.message))
                       ELSE createGroupMessages_rejected(inbox)
           m1 == IF isConversationOpened(req)
                     THEN addMessageToList(messages, LocalMessage(req))
                     ELSE messages
       IN  /\ Render(i1, m1, inboxReqs, msgReqs, searchTimer, ok)
           /\ System
           /\ lastOp' = Op(IF ok THEN "createGroupMessages.fulfilled"
                                 ELSE "createGroupMessages.rejected", "")
    /\ groupReqs' = RemoveAt(groupReqs, k)
    /\ modal' = ModalInitialState
    /\ user' = clearSearchResults(user)
    /\ UNCHANGED <<mounted, sendReqs, userReqs, unreadReqs, profileReq>>

(***************************************************************************)
(* MessengerContent: the response to fetchUserProfile.                     *)
(***************************************************************************)
ProfileResponse(ok, profileData) ==
    /\ profileReq # ""
    /\ profileReq' = ""
    /\ user' = IF ok THEN fetchUserProfile_fulfilled(user, profileData, profileReq)
                     ELSE fetchUserProfile_rejected(user)
    /\ System
    /\ lastOp' = Op(IF ok THEN "fetchUserProfile.fulfilled"
                                 ELSE "fetchUserProfile.rejected", "")
    /\ UNCHANGED <<inbox, messages, modal, mounted, searchTimer, unreadTimer,
                   inboxReqs, msgReqs, sendReqs, groupReqs, userReqs, unreadReqs>>

Next ==
    \/ Mount
    \/ \E value \in Queries : handleSearchChange(value)
    \/ handleClearSearch
    \/ DebounceFire
    \/ InboxScroll
    \/ \E username \in Peers : handleInboxClick(username)
    \/ \E k \in 1..Len(inboxReqs), ok \in BOOLEAN : InboxResponse(k, ok)
    \/ ConversationScroll
    \/ \E k \in 1..Len(msgReqs), ok \in BOOLEAN : MessagesResponse(k, ok)
    \/ MarkReadFire
    \/ \E k \in 1..Len(unreadReqs), ok \in BOOLEAN : UnreadResponse(k, ok)
    \/ handleReplyClick
    \/ \E value \in Bodies : handleInputChange(value)
    \/ handleCancelReply
    \/ handleSendMessage
    \/ \E k \in 1..Len(sendReqs), ok \in BOOLEAN : SendResponse(k, ok)
    \/ \E query \in UserQueries : handleSearch(query)
    \/ \E k \in 1..Len(userReqs), ok \in BOOLEAN : UsersResponse(k, ok)
    \/ \E k \in 1..Len(user.searchResults) : onSelect(k)
    \/ \E k \in 1..Len(modal.selectedUsers) : onRemove(k)
    \/ \E value \in Bodies : setGroupMessage(value)
    \/ handleSubmit
    \/ closeModal
    \/ \E k \in 1..Len(groupReqs), ok \in BOOLEAN : GroupResponse(k, ok)
    \/ \E ok \in BOOLEAN : ProfileResponse(ok, AccountProfile)

Spec == Init /\ [][Next]_vars


(***************************************************************************)
(* The engine by surface.  Each specification keeps the whole store and    *)
(* lets the user act on one part of the screen.                            *)
(***************************************************************************)
\* the inbox list: search, infinite scroll, selection, conversation loads
NextInbox ==
    \/ Mount
    \/ \E value \in Queries : handleSearchChange(value)
    \/ handleClearSearch
    \/ DebounceFire
    \/ InboxScroll
    \/ \E username \in Peers : handleInboxClick(username)
    \/ \E k \in 1..Len(inboxReqs), ok \in BOOLEAN : InboxResponse(k, ok)
    \/ ConversationScroll
    \/ \E k \in 1..Len(msgReqs), ok \in BOOLEAN : MessagesResponse(k, ok)

SpecInbox == Init /\ [][NextInbox]_vars

\* the conversation pane: selection, loads, reply and send
NextSend ==
    \/ Mount
    \/ \E username \in Peers : handleInboxClick(username)
    \/ \E k \in 1..Len(inboxReqs), ok \in BOOLEAN : InboxResponse(k, ok)
    \/ \E k \in 1..Len(msgReqs), ok \in BOOLEAN : MessagesResponse(k, ok)
    \/ handleReplyClick
    \/ \E value \in Bodies : handleInputChange(value)
    \/ handleCancelReply
    \/ handleSendMessage
    \/ \E k \in 1..Len(sendReqs), ok \in BOOLEAN : SendResponse(k, ok)

SpecSend == InitWith(SendGestures) /\ [][NextSend]_vars

\* the compose dialog: user search, recipients, group send
NextGroup ==
    \/ Mount
    \/ \E username \in Peers : handleInboxClick(username)
    \/ \E k \in 1..Len(inboxReqs), ok \in BOOLEAN : InboxResponse(k, ok)
    \/ \E k \in 1..Len(msgReqs), ok \in BOOLEAN : MessagesResponse(k, ok)
    \/ \E ok \in BOOLEAN : ProfileResponse(ok, AccountProfile)
    \/ \E query \in UserQueries : handleSearch(query)
    \/ \E k \in 1..Len(userReqs), ok \in BOOLEAN : UsersResponse(k, ok)
    \/ \E k \in 1..Len(user.searchResults) : onSelect(k)
    \/ \E k \in 1..Len(modal.selectedUsers) : onRemove(k)
    \/ \E value \in Bodies : setGroupMessage(value)
    \/ handleSubmit
    \/ closeModal
    \/ \E k \in 1..Len(groupReqs), ok \in BOOLEAN : GroupResponse(k, ok)

SpecGroup == InitWith(GroupGestures) /\ [][NextGroup]_vars


\* the conversation pane left open: selection, loads, and marking as read
NextUnread ==
    \/ Mount
    \/ \E value \in Queries : handleSearchChange(value)
    \/ DebounceFire
    \/ InboxScroll
    \/ \E username \in Peers : handleInboxClick(username)
    \/ \E k \in 1..Len(inboxReqs), ok \in BOOLEAN : InboxResponse(k, ok)
    \/ \E k \in 1..Len(msgReqs), ok \in BOOLEAN : MessagesResponse(k, ok)
    \/ MarkReadFire
    \/ \E k \in 1..Len(unreadReqs), ok \in BOOLEAN : UnreadResponse(k, ok)

SpecUnread == InitWith(UnreadGestures) /\ [][NextUnread]_vars

\* the timer of the mark-as-read effect fires when its 3 seconds are over
SpecUnreadFair ==
    InitWith(UnreadFairGestures) /\ [][NextUnread]_vars /\ WF_vars(MarkReadFire)

(***************************************************************************)
(* The fulfilled case of fetchUserProfile alone, applied to a User Store   *)
(* with or without search results, for the user names and account data the *)
(* platform may give.                                                      *)
(***************************************************************************)
ProfileInitStores ==
    {[UserInitialState EXCEPT !.searchResults = r, !.loading = l] :
        r \in {<<>>, <<[id |-> "a", username |-> "a"]>>,
               <<[id |-> "a", username |-> "a"], [id |-> "b", username |-> "b"]>>},
        l \in BOOLEAN}

InitProfile == \E u \in ProfileInitStores : InitStores(InboxInitialState, u, 0)

DispatchProfileFulfilled(profileData, username) ==
    /\ user' = fetchUserProfile_fulfilled(user, profileData, username)
    /\ lastOp' = Op("fetchUserProfile.fulfilled", username)
    /\ UNCHANGED <<inbox, messages, modal, mounted, searchTimer, unreadTimer,
                   inboxReqs, msgReqs, sendReqs, groupReqs, userReqs, unreadReqs,
                   profileReq, gestures>>

NextProfile ==
    \E profileData \in AccountProfiles, username \in ProfileUsernames :
        DispatchProfileFulfilled(profileData, username)

SpecProfile == InitProfile /\ [][NextProfile]_vars

(***************************************************************************)
(* The first render, for each user the platform may report (or none), and  *)
(* the responses to the loads it starts; the account may have an image,    *)
(* an image that is not set, or no profile image data.                     *)
(***************************************************************************)
AuthUsers == ProfileUsernames \cup {""}

NextAuth ==
    \/ \E username \in AuthUsers : MountAs(username)
    \/ \E k \in 1..Len(inboxReqs), ok \in BOOLEAN : InboxResponse(k, ok)
    \/ \E k \in 1..Len(msgReqs), ok \in BOOLEAN : MessagesResponse(k, ok)
    \/ \E ok \in BOOLEAN, profileData \in AccountProfiles :
          ProfileResponse(ok, profileData)

SpecAuth == InitWith(0) /\ [][NextAuth]_vars

(***************************************************************************)
(* Writing: the reply box of the conversation pane and the compose dialog  *)
(* side by side, on the conversation the first load selects.               *)
(***************************************************************************)
NextCompose ==
    \/ Mount
    \/ \E k \in 1..Len(inboxReqs), ok \in BOOLEAN : InboxResponse(k, ok)
    \/ \E k \in 1..Len(msgReqs), ok \in BOOLEAN : MessagesResponse(k, ok)
    \/ handleReplyClick
    \/ \E value \in Bodies : handleInputChange(value)
    \/ handleSendMessage
    \/ \E k \in 1..Len(sendReqs), ok \in BOOLEAN : SendResponse(k, ok)
    \/ \E query \in UserQueries : handleSearch(query)
    \/ \E k \in 1..Len(userReqs), ok \in BOOLEAN : UsersResponse(k, ok)
    \/ \E k \in 1..Len(user.searchResults) : onSelect(k)
    \/ \E value \in Bodies : setGroupMessage(value)
    \/ handleSubmit
    \/ \E k \in 1..Len(groupReqs), ok \in BOOLEAN : GroupResponse(k, ok)

SpecCompose == InitWith(ComposeGestures) /\ [][NextCompose]_vars

(***************************************************************************)
(* The merge reducers alone: updateInboxList and the fulfilled case of     *)
(* createGroupMessages, applied again and again to a list that starts      *)
(* without duplicates, with payloads that name each conversation once (the *)
(* bulk endpoint returns one entry per receiver).                          *)
(***************************************************************************)
NoDuplicateIds(list) ==
    \A i, j \in 1..Len(list) : i # j => list[i].id # list[j].id

SeqsUpTo(S, lo, hi) == UNION {[1..n -> S] : n \in lo..hi}

MergeEntryPool ==
    {InboxEntry(p, preview, ServerUnread(p)) :
        p \in Peers, preview \in {<<"o", "l", "d">>, ShortBody}}

MergePayloads ==
    {u \in SeqsUpTo(MergeEntryPool, 0, MaxPayload) : NoDuplicateIds(u)}

MergeInitLists ==
    {l \in SeqsUpTo({ServerEntry(p) : p \in Peers}, 2, 3) : NoDuplicateIds(l)}

InitMerge ==
    \E l \in MergeInitLists : InitFrom([InboxInitialState EXCEPT !.list = l], 0)

DispatchUpdateInboxList(payload) ==
    /\ inbox' = updateInboxList(inbox, payload)
    /\ lastOp' = Op("updateInboxList", payload)
    /\ UNCHANGED <<messages, user, modal, mounted, searchTimer, unreadTimer,
                   inboxReqs, msgReqs, sendReqs, groupReqs, userReqs, unreadReqs,
                   profileReq, gestures>>

DispatchGroupFulfilled(payload) ==
    /\ inbox' = createGroupMessages_fulfilled(inbox, payload)
    /\ lastOp' = Op("createGroupMessages.fulfilled", payload)
    /\ UNCHANGED <<messages, user, modal, mounted, searchTimer, unreadTimer,
                   inboxReqs, msgReqs, sendReqs, groupReqs, userReqs, unreadReqs,
                   profileReq, gestures>>

NextMerge ==
    \/ \E payload \in MergePayloads : DispatchUpdateInboxList(payload)
    \/ \E payload \in MergePayloads : DispatchGroupFulfilled(payload)

SpecMerge == InitMerge /\ [][NextMerge]_vars

(***************************************************************************)
(* The updateLastMessage reducer alone, applied to inbox lists without     *)
(* duplicates, for each peer (and one that has no entry) and for bodies    *)
(* below, at and above the preview limit.                                  *)
(***************************************************************************)
BodyOfLen(n) == [i \in 1..n |-> "x"]

PatchBodies ==
    {BodyOfLen(n) : n \in {0, PatchShortLen, PreviewLimit, PreviewLimit + 1,
                           PatchLongLen}}

PatchInitLists ==
    {l \in SeqsUpTo({ServerEntry(p) : p \in Peers}, 1, 3) : NoDuplicateIds(l)}

InitPatch ==
    \E l \in PatchInitLists, more \in BOOLEAN :
        InitFrom([InboxInitialState EXCEPT !.list = l, !.hasMore = more,
                                           !.selectedUser = l[1].withUser], 0)

DispatchUpdateLastMessage(username, message) ==
    /\ inbox' = updateLastMessage(inbox, username, message)
    /\ lastOp' = Op("updateLastMessage", [username |-> username, message |-> message])
    /\ UNCHANGED <<messages, user, modal, mounted, searchTimer, unreadTimer,
                   inboxReqs, msgReqs, sendReqs, groupReqs, userReqs, unreadReqs,
                   profileReq, gestures>>

NextPatch ==
    \E username \in Peers \cup {"z"}, message \in PatchBodies :
        DispatchUpdateLastMessage(username, message)

SpecPatch == InitPatch /\ [][NextPatch]_vars


(***************************************************************************)
(* The reducers of inboxSlice alone: any of them is dispatched, with the   *)
(* payloads the handlers and the thunks give them, to a store whose list   *)
(* has no duplicates.  The budget counts the actions dispatched.           *)
(***************************************************************************)
ReducerPayloads ==
    {u \in SeqsUpTo({ServerEntry(p) : p \in Peers}, 0, MaxPayload) : NoDuplicateIds(u)}

InitReducers ==
    \E l \in PatchInitLists :
        InitFrom([InboxInitialState EXCEPT !.list = l], ReducerSteps)

ReduceInbox(name, arg, state) ==
    /\ inbox' = state
    /\ lastOp' = Op(name, arg)
    /\ Gesture
    /\ UNCHANGED <<messages, user, modal, mounted, searchTimer, unreadTimer,
                   inboxReqs, msgReqs, sendReqs, groupReqs, userReqs, unreadReqs,
                   profileReq>>

\* the payload of fetchInboxList.fulfilled for a page of a search
InboxData(q, page) ==
    [results |-> InboxPages(q)[page], numPages |-> Len(InboxPages(q))]

NextReducers ==
    \/ \E p \in Peers : ReduceInbox("setSelectedUser", p, setSelectedUser(inbox, p))
    \/ \E q \in Queries : ReduceInbox("setSearchQuery", q, setSearchQuery(inbox, q))
    \/ ReduceInbox("incrementPageNumber", "", inbox_incrementPageNumber(inbox))
    \/ ReduceInbox("resetPageNumber", "", resetPageNumber(inbox))
    \/ \E p \in Peers :
          ReduceInbox("updateLastMessage", p, updateLastMessage(inbox, p, ShortBody))
    \/ \E payload \in ReducerPayloads :
          ReduceInbox("updateInboxList", payload, updateInboxList(inbox, payload))
    \/ ReduceInbox("fetchInboxList.pending", "", fetchInboxList_pending(inbox))
    \/ \E q \in Queries : \E page \in 1..Len(InboxPages(q)) :
          ReduceInbox("fetchInboxList.fulfilled", page,
                      fetchInboxList_fulfilled(inbox, InboxData(q, page), page))
    \/ ReduceInbox("fetchInboxList.rejected", "", fetchInboxList_rejected(inbox, "err"))
    \/ \E p \in Peers :
          ReduceInbox("updateUnreadCount.fulfilled", p,
                      updateUnreadCount_fulfilled(inbox, ClearedEntry(InboxId(p))))
    \/ ReduceInbox("updateUnreadCount.rejected", "", inbox)
    \/ \E payload \in ReducerPayloads :
          ReduceInbox("createGroupMessages.fulfilled", payload,
                      createGroupMessages_fulfilled(inbox, payload))
    \/ ReduceInbox("createGroupMessages.rejected", "",
                   createGroupMessages_rejected(inbox))

SpecReducers == InitReducers /\ [][NextReducers]_vars


(***************************************************************************)
(* data/utils.js: the key transforms of the service layer.  A key is the   *)
(* sequence of its characters.  A JavaScript value is a record: t is its   *)
(* kind, s the text of a scalar, items the elements of an array, entries   *)
(* the key and value pairs of an object in insertion order.                *)
(***************************************************************************)
LowerChars == {"a"}
UpperChars == {"A"}
DigitChars == {"1"}
CasingAlphabet == LowerChars \cup UpperChars \cup DigitChars \cup {"_"}

ToLower(c) == IF c = "A" THEN "a" ELSE c
ToUpper(c) == IF c = "a" THEN "A" ELSE c

\* the last position of the run of characters of S that starts at i (i - 1
\* when s[i] is not in S)
RECURSIVE RunEnd(_, _, _)
RunEnd(s, i, S) ==
    IF i <= Len(s) /\ s[i] \in S THEN RunEnd(s, i + 1, S) ELSE i - 1

\* lodash words(): a word is a run of lower-case letters with the upper-case
\* letter before it if there is one, a run of upper-case letters (without
\* its last letter when a lower-case letter follows), or a run of digits;
\* any other character separates words
RECURSIVE WordsFrom(_, _)
WordsFrom(s, i) ==
    IF i > Len(s) THEN <<>>
    ELSE IF s[i] \in LowerChars THEN
        LET j == RunEnd(s, i, LowerChars)
        IN  <<SubSeq(s, i, j)>> \o WordsFrom(s, j + 1)
    ELSE IF s[i] \in UpperChars THEN
        IF i < Len(s) /\ s[i + 1] \in LowerChars
            THEN LET j == RunEnd(s, i + 1, LowerChars)
                 IN  <<SubSeq(s, i, j)>> \o WordsFrom(s, j + 1)
            ELSE LET j == RunEnd(s, i, UpperChars)
                     e == IF j < Len(s) /\ s[j + 1] \in LowerChars THEN j - 1 ELSE j
                 IN  <<SubSeq(s, i, e)>> \o WordsFrom(s, e + 1)
    ELSE IF s[i] \in DigitChars THEN
        LET j == RunEnd(s, i, DigitChars)
        IN  <<SubSeq(s, i, j)>> \o WordsFrom(s, j + 1)
    ELSE WordsFrom(s, i + 1)

Words(s) == WordsFrom(s, 1)

LowerWord(w) == [i \in 1..Len(w) |-> ToLower(w[i])]
Capitalize(w) == [i \in 1..Len(w) |-> IF i = 1 THEN ToUpper(w[i]) ELSE w[i]]

\* the words of w joined, sep between two of them
RECURSIVE Join(_, _)
Join(w, sep) ==
    IF w = <<>> THEN <<>>
    ELSE IF Len(w) = 1 THEN w[1]
    ELSE w[1] \o sep \o Join(Tail(w), sep)

\* a snake case that puts nothing between the words
snakeCaseNoSeparator(s) ==
    LET w == Words(s)
    IN  Join([i \in 1..Len(w) |-> LowerWord(w[i])], <<>>)

\* lodash.camelcase
camelCase(s) ==
    LET w == Words(s)
    IN  Join([i \in 1..Len(w) |->
                IF i = 1 THEN LowerWord(w[i]) ELSE Capitalize(LowerWord(w[i]))],
             <<>>)

\* lodash.snakecase
snakeCase(s) ==
    LET w == Words(s)
    IN  Join([i \in 1..Len(w) |-> LowerWord(w[i])], <<"_">>)

JsValue(t, s, items, entries) ==
    [t |-> t, s |-> s, items |-> items, entries |-> entries]
JsUndefined == JsValue("undefined", <<>>, <<>>, <<>>)
JsNull == JsValue("null", <<>>, <<>>, <<>>)
JsScalar(s) == JsValue("scalar", s, <<>>, <<>>)
JsArray(items) == JsValue("array", <<>>, items, <<>>)
JsObject(entries) == JsValue("object", <<>>, <<>>, entries)
Entry(key, value) == [key |-> key, value |-> value]

\* modify(key) for the transform named `modify`
ModifyKey(modify, key) ==
    IF modify = "camelCase" THEN camelCase(key) ELSE snakeCase(key)

\* result[key] = value: a key the object has keeps its place
SetKey(result, key, value) ==
    IF \E j \in 1..Len(result) : result[j].key = key
        THEN [j \in 1..Len(result) |->
                IF result[j].key = key THEN Entry(key, value) ELSE result[j]]
        ELSE Append(result, Entry(key, value))

RECURSIVE modifyObjectKeys(_, _)
RECURSIVE ModifyEntries(_, _, _)

\* Object.entries(object).forEach(([key, value]) => { result[modify(key)] = ... })
ModifyEntries(result, entries, modify) ==
    IF entries = <<>> THEN result
    ELSE ModifyEntries(
            SetKey(result, ModifyKey(modify, Head(entries).key),
                   modifyObjectKeys(Head(entries).value, modify)),
            Tail(entries), modify)

modifyObjectKeys(object, modify) ==
    IF object.t \in {"undefined", "null", "scalar"} THEN object
    ELSE IF object.t = "array"
        THEN JsArray([i \in 1..Len(object.items) |->
                        modifyObjectKeys(object.items[i], modify)])
        ELSE JsObject(ModifyEntries(<<>>, object.entries, modify))

camelCaseObject(object) == modifyObjectKeys(object, "camelCase")
snakeCaseObject(object) == modifyObjectKeys(object, "snakeCase")

\* the keys and the values the transforms are applied to: a scalar, null or
\* undefined, an array, an object with one key or two, an object in an
\* object, an object in an array in an object
CasingKeys == SeqsUpTo(CasingAlphabet, 1, MaxKeyLen)

CasingLeaves ==
    {JsScalar(<<"7">>), JsScalar(<<"a", "_", "A">>), JsNull, JsUndefined}

CasingShapes == {"leaf", "array", "object", "twoKeys", "nested", "inArray"}

CasingValue(shape, k1, k2, leaf) ==
    CASE shape = "leaf" -> leaf
      [] shape = "array" -> JsArray(<<leaf, JsScalar(<<"a", "_", "A">>)>>)
      [] shape = "object" -> JsObject(<<Entry(k1, leaf)>>)
      [] shape = "twoKeys" ->
            JsObject(<<Entry(k1, leaf), Entry(k2, JsScalar(<<"a", "_", "A">>))>>)
      [] shape = "nested" ->
            JsObject(<<Entry(k1, JsObject(<<Entry(k2, leaf)>>))>>)
      [] OTHER ->
            JsObject(<<Entry(k1,
                JsArray(<<JsObject(<<Entry(k2, leaf)>>),
                          JsScalar(<<"a", "_", "A">>)>>))>>)

Applied(name, object, result) == Op(name, [object |-> object, result |-> result])

InitCasing ==
    /\ \E shape \in CasingShapes, k1 \in CasingKeys, k2 \in CasingKeys,
          leaf \in CasingLeaves :
          /\ shape = "twoKeys" => k1 # k2
          /\ lastOp = Applied("value", CasingValue(shape, k1, k2, leaf),
                              CasingValue(shape, k1, k2, leaf))
    /\ inbox = InboxInitialState
    /\ messages = MessagesInitialState
    /\ user = UserInitialState
    /\ modal = ModalInitialState
    /\ mounted = FALSE
    /\ searchTimer = NoTimer
    /\ unreadTimer = NoUnreadTimer
    /\ unreadReqs = <<>>
    /\ inboxReqs = <<>>
    /\ msgReqs = <<>>
    /\ sendReqs = <<>>
    /\ groupReqs = <<>>
    /\ userReqs = <<>>
    /\ profileReq = ""
    /\ gestures = 0

\* a service sends snakeCaseObject(body)
ApplySnakeCaseObject ==
    /\ lastOp.op = "value"
    /\ lastOp' = Applied("snakeCaseObject", lastOp.arg.result,
                         snakeCaseObject(lastOp.arg.result))
    /\ UNCHANGED <<inbox, messages, user, modal, mounted, searchTimer, unreadTimer,
                   inboxReqs, msgReqs, sendReqs, groupReqs, userReqs, unreadReqs,
                   profileReq, gestures>>

\* a service returns camelCaseObject(data)
ApplyCamelCaseObject ==
    /\ lastOp.op \in {"value", "snakeCaseObject"}
    /\ lastOp' = Applied("camelCaseObject", lastOp.arg.result,
                         camelCaseObject(lastOp.arg.result))
    /\ UNCHANGED <<inbox, messages, user, modal, mounted, searchTimer, unreadTimer,
                   inboxReqs, msgReqs, sendReqs, groupReqs, userReqs, unreadReqs,
                   profileReq, gestures>>

NextCasing == ApplySnakeCaseObject \/ ApplyCamelCaseObject

SpecCasing == InitCasing /\ [][NextCasing]_vars


(***************************************************************************)
(* Properties.                                                             *)
(***************************************************************************)
\* the messages of the list that belong to the conversation with `peer`
OnlyMessagesOf(peer, list) == \A i \in 1..Len(list) : peer \in list[i].conv

\* C1: peer A is selected and then peer B before A's conversation fetch has
\* resolved; in every state in which no conversation fetch is in flight (and
\* none has failed since the last one was issued), the items of the Messages
\* Store are messages of the selected peer only.
C1_OnlySelectedPeerMessages ==
    (msgReqs = <<>> /\ messages.error = Null /\ inbox.selectedUser # "")
        => OnlyMessagesOf(inbox.selectedUser, messages.list)

\* C2: a list-inbox request is never issued while an earlier one is still
\* unresolved, so at most one is in flight at any time.
C2_OneInboxRequestInFlight == Len(inboxReqs) <= 1

\* C3: in every reachable state the inbox list holds no two entries with the
\* same id.
C3_InboxIdsUnique == NoDuplicateIds(inbox.list)

\* position of the entry with this id in a list without duplicates, else 0
PositionOf(list, id) ==
    IF \E i \in 1..Len(list) : list[i].id = id
        THEN CHOOSE i \in 1..Len(list) : list[i].id = id
        ELSE 0

\* what C4 says of one merge of `updated` into `before`, giving `after`
MergedOnTop(before, updated, after) ==
    /\ NoDuplicateIds(after)
    /\ Len(after) >= Len(updated)
    /\ \A i \in 1..Len(updated) : after[i] = updated[i]
    /\ \A i \in 1..Len(before) :
          ~Includes(Ids(updated), before[i].id) =>
              /\ PositionOf(after, before[i].id) > Len(updated)
              /\ after[PositionOf(after, before[i].id)] = before[i]
    /\ \A i \in (Len(updated) + 1)..Len(after) : Includes(Ids(before), after[i].id)
    /\ \A i, j \in 1..Len(before) :
          (/\ i < j
           /\ ~Includes(Ids(updated), before[i].id)
           /\ ~Includes(Ids(updated), before[j].id))
              => PositionOf(after, before[i].id) < PositionOf(after, before[j].id)

InboxPageOneLoaded ==
    \E k \in 1..Len(inboxReqs) :
        inboxReqs[k].pageNumber = 1 /\ InboxResponse(k, TRUE)

\* C5: a successful inbox page-1 load sets selectedUser to the first result's
\* peer if and only if selectedUser was empty and the result is not; a
\* selectedUser that is set is left as it is.
C5_AutoSelectOnlyWhenUnset ==
    [][InboxPageOneLoaded =>
          inbox'.selectedUser =
              IF inbox.selectedUser = "" /\ inbox'.list # <<>>
                  THEN inbox'.list[1].withUser
                  ELSE inbox.selectedUser]_vars

\* the state resetMessages leaves
IsReset(m) ==
    /\ m.list = <<>>
    /\ m.pageNumber = 1
    /\ ~m.hasMore
    /\ ~m.isReplying
    /\ m.currentMessage = <<>>

\* C6: whenever selectedUser changes value, the Messages Store is reset when
\* the conversation load for the new peer is issued.
C6_ResetOnEverySelectionChange ==
    [][inbox'.selectedUser # inbox.selectedUser => IsReset(messages')]_vars

\* C7: a failed send leaves the draft, the replying flag and the items of the
\* Messages Store as they were, and does not patch the inbox list.
C7_FailedSendChangesNothing ==
    [][lastOp'.op = "createMessage.rejected" =>
          /\ messages'.currentMessage = messages.currentMessage
          /\ messages'.isReplying = messages.isReplying
          /\ messages'.list = messages.list
          /\ inbox'.list = inbox.list]_vars

\* C8: a failed group send prepends no message to the Messages Store.
C8_FailedGroupSendPrependsNothing ==
    [][lastOp'.op = "createGroupMessages.rejected" =>
          messages'.list = messages.list]_vars

\* the local message C9 expects: sent by the current user, now, with the text
ExpectedLocalMessage(req) ==
    [sender |-> user.currentUser.username,
     sender_img |-> user.currentUser.profileImage,
     created |-> "now",
     message |-> req.message,
     conv |-> Range(req.receivers)]

\* C9: a fulfilled group send puts the returned entries on top of the inbox
\* list, and prepends the local message to the Messages Store if and only if
\* the selected peer is among the recipients.
C9_GroupSendMergesAndPrepends ==
    [][\A k \in 1..Len(groupReqs) :
          GroupResponse(k, TRUE) =>
              /\ \A i \in 1..Len(groupReqs[k].receivers) :
                    /\ inbox'.list[i].withUser = groupReqs[k].receivers[i]
                    /\ inbox'.list[i].lastMessage = groupReqs[k].message
              /\ messages'.list =
                    IF Includes(groupReqs[k].receivers, inbox.selectedUser)
                        THEN <<ExpectedLocalMessage(groupReqs[k])>> \o messages.list
                        ELSE messages.list]_vars

\* the requests a step has added to those in flight
IssuedInboxReqs ==
    IF Len(inboxReqs') > Len(inboxReqs)
        THEN SubSeq(inboxReqs', Len(inboxReqs) + 1, Len(inboxReqs'))
        ELSE <<>>

\* C10: clearing a non-empty search text while its debounce timer is pending
\* cancels the timer and issues one request, page 1 of the empty query; setting
\* the text issues none, and page 1 of a non-empty query is requested by its
\* own pending timer only, so the text set and cleared is never fetched.
C10_SetThenClearFetchesOnce ==
    [][/\ (inbox.searchQuery # "" /\ inbox'.searchQuery = "" /\ searchTimer # NoTimer)
            => /\ searchTimer' = NoTimer
               /\ inboxReqs' = Append(inboxReqs, InboxReq(1, ""))
       /\ (inbox'.searchQuery # inbox.searchQuery /\ inbox'.searchQuery # "")
            => /\ inboxReqs' = inboxReqs
               /\ searchTimer' = inbox'.searchQuery
       /\ \A i \in 1..Len(IssuedInboxReqs) :
            (IssuedInboxReqs[i].searchQuery # "" /\ IssuedInboxReqs[i].pageNumber = 1)
                => /\ searchTimer = IssuedInboxReqs[i].searchQuery
                   /\ inbox.searchQuery = IssuedInboxReqs[i].searchQuery
                   /\ searchTimer' = NoTimer]_vars

\* C10 witness: the text has just been cleared with the timer of a non-empty
\* text pending, and page 1 of the empty query is the request in flight.
C10_Witness ==
    /\ lastOp.op \in {"handleClearSearch", "handleSearchChange"}
    /\ lastOp.arg # NoTimer
    /\ inbox.searchQuery = ""
    /\ searchTimer = NoTimer
    /\ inboxReqs = <<InboxReq(1, "")>>

\* C11: a non-empty search text replaced by another non-empty text while its
\* debounce timer is pending cancels that timer, issues no request, and
\* leaves one timer, for the new text; a timer that fires issues one request,
\* page 1 of the text current at that time, and every request issued for a
\* non-empty text carries the text current when it is issued.
C11_OnlyLatestQueryFetched ==
    [][/\ (/\ inbox.searchQuery # "" /\ inbox'.searchQuery # ""
           /\ inbox'.searchQuery # inbox.searchQuery
           /\ searchTimer # NoTimer)
            => /\ searchTimer' = inbox'.searchQuery
               /\ inboxReqs' = inboxReqs
       /\ lastOp'.op = "debounce"
            => /\ IssuedInboxReqs = <<InboxReq(1, inbox.searchQuery)>>
               /\ inbox.searchQuery # ""
               /\ searchTimer' = NoTimer
       /\ \A i \in 1..Len(IssuedInboxReqs) :
            IssuedInboxReqs[i].searchQuery = inbox'.searchQuery]_vars

\* C11 witness: the timer of "c" was pending when the text became "z"; the
\* timer of "z" is the one pending and no request for "c" is in flight.
C11_Witness ==
    /\ lastOp = Op("handleSearchChange", "c")
    /\ inbox.searchQuery = "z"
    /\ searchTimer = "z"
    /\ \A i \in 1..Len(inboxReqs) : inboxReqs[i].searchQuery # "c"

\* the entry of the inbox list a pending mark-as-read timer was set for is the
\* entry of the selected peer
TimerForSelectedPeer(timer, state) ==
    \E i \in 1..Len(state.list) :
        /\ state.list[i].id = timer
        /\ state.list[i].withUser = state.selectedUser
        /\ state.selectedUser # ""

\* C12: a clear-unread request is issued for an entry of the inbox list whose
\* peer is the selected peer when the request is issued; a pending timer is
\* always the one of the selected peer's entry, and a change of selectedUser
\* with a timer pending issues no request and leaves no timer but the one of
\* the new selected peer.
C12_ClearUnreadOnlyForSelectedPeer ==
    [][/\ Len(unreadReqs') > Len(unreadReqs)
            => /\ unreadReqs' = Append(unreadReqs, unreadTimer)
               /\ TimerForSelectedPeer(unreadReqs'[Len(unreadReqs')], inbox)
       /\ unreadTimer' # NoUnreadTimer => TimerForSelectedPeer(unreadTimer', inbox')
       /\ (inbox'.selectedUser # inbox.selectedUser /\ unreadTimer # NoUnreadTimer)
            => unreadReqs' = unreadReqs]_vars

\* C12 witness: the selected peer was changed from a to c while the timer of
\* a's entry was pending, and no clear-unread request was ever sent for a.
C12_Witness ==
    /\ lastOp = Op("handleInboxClick", "c")
    /\ unreadTimer = InboxId("c")
    /\ unreadReqs = <<>>
    /\ \E i \in 1..Len(inbox.list) :
          inbox.list[i].withUser = "a" /\ inbox.list[i].unreadCount > 0

InboxIds == {InboxId(p) : p \in Peers}

\* the entry the mark-as-read effect finds for the selected peer has unread
\* messages, and this is its id
UnreadEntryOfSelected(state, id) ==
    /\ state.selectedUser # ""
    /\ FindInbox(state.list, state.selectedUser) # 0
    /\ state.list[FindInbox(state.list, state.selectedUser)].unreadCount > 0
    /\ state.list[FindInbox(state.list, state.selectedUser)].id = id

\* C13: when selectedUser or the inbox list changes so that the selected
\* peer's entry has unread messages, the timer is set for that entry; a
\* pending timer goes away only by firing or by a change of selectedUser or
\* of the list; and, the timer being fair, a pending timer leads to a
\* clear-unread request for its entry unless it has gone away that way.
C13_UnreadTimerLeadsToClear ==
    /\ [][\A id \in InboxIds :
            /\ (/\ \/ inbox'.selectedUser # inbox.selectedUser
                   \/ inbox'.list # inbox.list
                /\ UnreadEntryOfSelected(inbox', id))
                  => unreadTimer' = id
            /\ (unreadTimer = id /\ unreadTimer' # id)
                  => \/ unreadReqs' = Append(unreadReqs, id)
                     \/ inbox'.selectedUser # inbox.selectedUser
                     \/ inbox'.list # inbox.list]_vars
    /\ \A id \in InboxIds :
          (unreadTimer = id)
              ~> \/ (/\ lastOp = Op("markRead", PeerOfId(id))
                     /\ unreadReqs # <<>>
                     /\ unreadReqs[Len(unreadReqs)] = id)
                 \/ ~UnreadEntryOfSelected(inbox, id)

\* C13 witness: the timer set for the selected peer a has fired with a still
\* selected and its entry still unread, and the request for it is in flight.
C13_Witness ==
    /\ lastOp = Op("markRead", "a")
    /\ inbox.selectedUser = "a"
    /\ UnreadEntryOfSelected(inbox, InboxId("a"))
    /\ unreadReqs = <<InboxId("a")>>
    /\ unreadTimer = NoUnreadTimer

\* C14: the page number of the Inbox Store, or of the Messages Store, is never
\* advanced while a load of that store is in flight or its isLoading flag is
\* set, nor while its hasMore is false.
C14_NoPageAdvanceDuringLoad ==
    [][/\ inbox'.pageNumber = inbox.pageNumber + 1
            => inboxReqs = <<>> /\ ~inbox.loading /\ inbox.hasMore
       /\ messages'.pageNumber = messages.pageNumber + 1
            => msgReqs = <<>> /\ ~messages.loading /\ messages.hasMore]_vars

\* what C15 says of one store after the successful load of a page
LoadedPage(before, after, page, pages) ==
    /\ after.list = IF page = 1 THEN pages[page] ELSE before.list \o pages[page]
    /\ after.hasMore = (page < Len(pages))
    /\ ~after.loading

\* C15: in both stores a successful load of page 1 replaces the items by the
\* results, a successful load of a later page appends the results to the
\* items, and in both cases hasMore becomes (page < number of pages) and
\* isLoading becomes false.
C15_PageOneReplacesLaterPagesAppend ==
    [][/\ \A k \in 1..Len(inboxReqs) :
            InboxResponse(k, TRUE) =>
                LoadedPage(inbox, inbox', inboxReqs[k].pageNumber,
                           InboxPages(inboxReqs[k].searchQuery))
       /\ \A k \in 1..Len(msgReqs) :
            MessagesResponse(k, TRUE) =>
                LoadedPage(messages, messages', msgReqs[k].pageNumber,
                           ConversationPages(msgReqs[k].username))]_vars

\* C15 witness: the second page of the inbox was appended to the first, and
\* then the second page of a conversation to its first.
C15_Witness ==
    /\ lastOp.op = "fetchMessages.fulfilled"
    /\ Len(inbox.list) = 3
    /\ ~inbox.hasMore
    /\ Len(messages.list) = 2
    /\ ~messages.hasMore
    /\ ~messages.loading

\* what C16 says of the store of an operation that has failed
FailureRecorded(before, after) ==
    /\ after.error # Null
    /\ after = [before EXCEPT !.error = after.error, !.loading = FALSE]

\* C16: every operation that fails stores an error in the error field of its
\* own store and leaves the other fields of that store, apart from loading
\* being cleared, as they were.
C16_FailureStoredInOwnStore ==
    [][/\ lastOp'.op \in {"fetchInboxList.rejected", "updateUnreadCount.rejected",
                          "createGroupMessages.rejected"}
            => FailureRecorded(inbox, inbox')
       /\ lastOp'.op \in {"fetchMessages.rejected", "createMessage.rejected"}
            => FailureRecorded(messages, messages')
       /\ lastOp'.op \in {"searchUsers.rejected", "fetchUserProfile.rejected"}
            => FailureRecorded(user, user')]_vars

\* the preview C17 and C20 expect for a body: the body when it has at most 30
\* characters, else its first 30 characters and the ellipsis marker
ExpectedPreview(body) ==
    IF Len(body) <= 30 THEN body ELSE SubSeq(body, 1, 30) \o <<".", ".", ".">>

\* the list with the preview of the entries of this peer patched (the field
\* that updateLastMessage writes), the other entries as they were
PreviewPatched(before, after, peer, body) ==
    /\ Len(after) = Len(before)
    /\ \A i \in 1..Len(before) :
          after[i] = IF before[i].withUser = peer
                         THEN [before[i] EXCEPT !.last_message = ExpectedPreview(body)]
                         ELSE before[i]

\* C17: a send to peer p with body b that succeeds prepends the message the
\* server returned, its body unmodified, to the Messages items, clears the
\* draft and the replying flag, and patches the preview of p's inbox entry
\* with b (at most 30 characters) or with its first 30 characters and the
\* ellipsis marker; the entries of other peers are untouched.
C17_SendSuccessPrependsAndPatches ==
    [][\A k \in 1..Len(sendReqs) :
          SendResponse(k, TRUE) =>
              /\ Len(messages'.list) = Len(messages.list) + 1
              /\ Tail(messages'.list) = messages.list
              /\ messages'.list[1].message = sendReqs[k].message
              /\ messages'.list[1].sender = AuthUser
              /\ messages'.currentMessage = <<>>
              /\ ~messages'.isReplying
              /\ PreviewPatched(inbox.list, inbox'.list, sendReqs[k].receiver,
                                sendReqs[k].message)]_vars

\* C17 witness: the long body was sent to a; it heads the Messages items
\* whole, and a's entry has the 30 characters and the ellipsis marker.
C17_Witness ==
    /\ lastOp.op = "createMessage.fulfilled"
    /\ messages.list[1].message = LongBody
    /\ messages.currentMessage = <<>>
    /\ \E i \in 1..Len(inbox.list) :
          /\ inbox.list[i].withUser = "a"
          /\ Len(inbox.list[i].last_message) = 33
          /\ SubSeq(inbox.list[i].last_message, 31, 33) = Ellipsis
    /\ \E i \in 1..Len(inbox.list) :
          inbox.list[i].withUser = "b" /\ inbox.list[i].last_message = NoField

\* C18: the search results of the User Store are empty after every close of
\* the compose dialog and after every submit of a group message has completed.
C18_SearchResultsClearedOnCloseAndSubmit ==
    [][lastOp'.op \in {"closeModal", "createGroupMessages.fulfilled",
                       "createGroupMessages.rejected"}
          => user'.searchResults = <<>>]_vars

\* String.prototype.toUpperCase, for one character
Upper(c) ==
    CASE c = "a" -> "A" [] c = "b" -> "B" [] c = "c" -> "C" [] c = "d" -> "D"
      [] c = "e" -> "E" [] c = "l" -> "L" [] c = "m" -> "M" [] c = "o" -> "O"
      [] c = "v" -> "V" [] OTHER -> c

\* the initials C19 expects: the first letter, then the first letter of the
\* second token if there is one, else the second character, else the first
\* letter again; in upper case
ExpectedInitials(s) ==
    LET second == SecondToken(s)
    IN  <<Upper(s[1]),
          Upper(IF second # NoField /\ second # <<>> THEN second[1]
                ELSE IF Len(s) >= 2 THEN s[2] ELSE s[1])>>

\* C19: the initials stored by a successful profile load are two upper-case
\* letters, ("ada lovelace" gives AL, "a" gives AA, "bob" gives BO).
C19_InitialsTwoUpperCaseLetters ==
    [][lastOp'.op = "fetchUserProfile.fulfilled" =>
          /\ user'.currentUser.profileName =
                ExpectedInitials(Chars(user'.currentUser.username))
          /\ user'.currentUser.username = "ada lovelace"
                => user'.currentUser.profileName = <<"A", "L">>
          /\ user'.currentUser.username = "a"
                => user'.currentUser.profileName = <<"A", "A">>
          /\ user'.currentUser.username = "bob"
                => user'.currentUser.profileName = <<"B", "O">>]_vars

\* C20: updateLastMessage sets the preview of every entry of the peer to the
\* body when it has at most 30 characters, and to its first 30 characters and
\* the 3-character ellipsis marker otherwise, and leaves the other entries,
\* the order of the list and the other fields of the Inbox Store unchanged.
C20_PatchTruncatesAtThirty ==
    [][lastOp'.op = "updateLastMessage" =>
          /\ PreviewPatched(inbox.list, inbox'.list, lastOp'.arg.username,
                            lastOp'.arg.message)
          /\ inbox' = [inbox EXCEPT !.list = inbox'.list]
          /\ \A i \in 1..Len(inbox'.list) :
                inbox'.list[i].withUser = lastOp'.arg.username =>
                    Len(inbox'.list[i].last_message) =
                        IF Len(lastOp'.arg.message) > 30
                            THEN 33 ELSE Len(lastOp'.arg.message)]_vars

\* C20 witness: the long body was patched into the entry of one peer, which
\* has a preview of 33 characters ending in the ellipsis marker, after the
\* short body was patched, whole, into the entry of another peer.
C20_Witness ==
    /\ lastOp.op = "updateLastMessage"
    /\ Len(lastOp.arg.message) = PatchLongLen
    /\ \E i, j \in 1..Len(inbox.list) :
          /\ inbox.list[i].withUser = lastOp.arg.username
          /\ Len(inbox.list[i].last_message) = 33
          /\ SubSeq(inbox.list[i].last_message, 31, 33) = Ellipsis
          /\ inbox.list[j].withUser # lastOp.arg.username
          /\ inbox.list[j].last_message = BodyOfLen(PatchShortLen)

\* the list `after` is `before` with every entry of id `id` replaced by
\* `entry`, position by position
ReplacedInPlace(before, after, id, entry) ==
    /\ Len(after) = Len(before)
    /\ \A i \in 1..Len(before) :
          /\ before[i].id = id => after[i] = entry
          /\ before[i].id # id => after[i] = before[i]

\* C21: a fulfilled updateUnreadCount puts the entry the server returned at
\* the position of the entry with its id, keeps the length of the list and
\* every other entry where it was; a rejected one leaves the list as it was.
C21_ClearUnreadReplacesInPlace ==
    [][\A k \in 1..Len(unreadReqs) :
          /\ UnreadResponse(k, TRUE) =>
                ReplacedInPlace(inbox.list, inbox'.list, unreadReqs[k],
                                ClearedEntry(unreadReqs[k]))
          /\ UnreadResponse(k, FALSE) => inbox'.list = inbox.list]_vars

\* a fulfilled updateUnreadCount has replaced an entry that is not the first
\* of the list: the entry shows no unread message, the list is in the order
\* the server gave
C21_Witness ==
    /\ lastOp.op = "updateUnreadCount.fulfilled"
    /\ Len(inbox.list) >= 2
    /\ \E i \in 2..Len(inbox.list) :
          /\ inbox.list[i].withUser = lastOp.arg
          /\ inbox.list[i] = ClearedEntry(inbox.list[i].id)
          /\ ServerUnread(lastOp.arg) # 0

\* C22: the first render issues a load of inbox page 1 for the empty search
\* text and a load of the profile of the authenticated user.  Neither waits
\* for the other: while the profile load is pending its response can arrive
\* whatever the state of the inbox loads, an inbox response leaves the profile
\* load and the User Store as they are, and a profile response leaves the
\* inbox loads and the Inbox Store as they are.
C22_MountIssuesInboxAndProfileLoads ==
    /\ [][/\ \A username \in AuthUsers :
                MountAs(username) =>
                    /\ Includes(inboxReqs', InboxReq(1, ""))
                    /\ profileReq' = username
          /\ \A k \in 1..Len(inboxReqs), ok \in BOOLEAN :
                InboxResponse(k, ok) => profileReq' = profileReq /\ user' = user
          /\ \A ok \in BOOLEAN, profileData \in AccountProfiles :
                ProfileResponse(ok, profileData) =>
                    inboxReqs' = inboxReqs /\ inbox' = inbox]_vars
    /\ [](profileReq # "" => ENABLED ProfileResponse(TRUE, AccountProfile))
    /\ [](\A k \in 1..Len(inboxReqs) : ENABLED InboxResponse(k, TRUE))

\* the profile has arrived while both inbox loads of the first render are
\* still awaited
C22_Witness ==
    /\ lastOp.op = "fetchUserProfile.fulfilled"
    /\ user.currentUser.username = AuthUser
    /\ inboxReqs = <<InboxReq(1, ""), InboxReq(1, "")>>

C23_SelectionChangeLoadsPageOne ==
    [][(inbox'.selectedUser # inbox.selectedUser /\ inbox'.selectedUser # "")
          => /\ Len(msgReqs') > Len(msgReqs)
             /\ SubSeq(msgReqs', 1, Len(msgReqs)) = msgReqs
             /\ msgReqs'[Len(msgReqs) + 1] = MsgReq(1, inbox'.selectedUser)]_vars

\* the user has left the conversation that was selected by the first load
\* for another one, whose first page is now awaited
C23_Witness ==
    /\ lastOp = Op("handleInboxClick", "b")
    /\ inbox.selectedUser = "b"
    /\ Len(msgReqs) >= 1
    /\ msgReqs[Len(msgReqs)] = MsgReq(1, "b")
    /\ messages.loading

\* the {id: username, username} pairs of the users the server returned
ExpectedSearchResults(users) ==
    [i \in 1..Len(users) |->
        [id |-> users[i].username, username |-> users[i].username]]

\* C25: a user search for the empty text dispatches nothing and changes no
\* store; a fulfilled search for another text makes searchResults the
\* {id: username, username} pairs of the users returned, one per user and in
\* their order, and clears the loading flag of the User Store.
C25_UserSearchProjectsResults ==
    [][/\ handleSearch("") =>
             /\ userReqs' = userReqs
             /\ UNCHANGED <<user, inbox, messages, modal, inboxReqs, msgReqs,
                            sendReqs, groupReqs, unreadReqs>>
       /\ \A k \in 1..Len(userReqs) :
             UsersResponse(k, TRUE) =>
                /\ userReqs[k] # ""
                /\ user'.searchResults = ExpectedSearchResults(FoundUsers(userReqs[k]))
                /\ ~user'.loading]_vars

\* a second search has been answered while the results of the first one were
\* listed: the list holds the users found once, in the order they came in
C25_Witness ==
    /\ lastOp.op = "searchUsers.fulfilled"
    /\ userReqs = <<>>
    /\ gestures <= GroupGestures - 2
    /\ user.searchResults =
          << [id |-> "a", username |-> "a"], [id |-> "b", username |-> "b"] >>
    /\ ~user.loading

\* the ids of the entries of an inbox list
IdSet(list) == {list[i].id : i \in 1..Len(list)}

\* C26: an id leaves the inbox list only when fetchInboxList is fulfilled for
\* page 1.  After any other reducer (a later page, a merge, a group send, a
\* cleared unread count, a patched preview, a selection, a change of search
\* text or page, a pending or rejected load) every id of the list is still
\* in it.
C26_IdsLeaveOnlyOnPageOneLoad ==
    [][\/ IdSet(inbox.list) \subseteq IdSet(inbox'.list)
       \/ (lastOp'.op = "fetchInboxList.fulfilled" /\ lastOp'.arg = 1)]_vars

\* a group send has put two entries on top of a list that keeps its third
C26_Witness ==
    /\ lastOp.op = "createGroupMessages.fulfilled"
    /\ Len(lastOp.arg) = 2
    /\ Len(inbox.list) = 3
    /\ SubSeq(inbox.list, 1, 2) = lastOp.arg
    /\ inbox.list[3].id \notin IdSet(lastOp.arg)

\* a text with no character other than white space
OnlyWhiteSpace(s) == \A i \in 1..Len(s) : s[i] = " "

\* the stores, the dialog and the requests awaited are what they were
NothingIssuedOrStored ==
    UNCHANGED <<inbox, messages, user, modal, inboxReqs, msgReqs, sendReqs,
                groupReqs, userReqs, unreadReqs>>

\* C27: createMessage is dispatched only for a selected peer and a body that
\* has more than white space; createGroupMessages only for a body that has
\* more than white space and at least one receiver.  A submit of the dialog
\* with a blank body or nobody selected dispatches nothing and changes no
\* store; the Send button does nothing while the body is blank.
C27_SendsNeedPeerAndBody ==
    [][/\ Len(sendReqs') > Len(sendReqs) =>
             /\ sendReqs'[Len(sendReqs')].receiver # ""
             /\ ~OnlyWhiteSpace(sendReqs'[Len(sendReqs')].message)
       /\ Len(groupReqs') > Len(groupReqs) =>
             /\ ~OnlyWhiteSpace(groupReqs'[Len(groupReqs')].message)
             /\ Len(groupReqs'[Len(groupReqs')].receivers) >= 1
       /\ (handleSubmit /\ (OnlyWhiteSpace(modal.groupMessage)
                              \/ modal.selectedUsers = <<>>))
             => NothingIssuedOrStored
       /\ (OnlyWhiteSpace(messages.currentMessage) \/ inbox.selectedUser = "")
             => ~handleSendMessage]_vars

\* the dialog has been submitted with a receiver and a body: the group send
\* is awaited
C27_Witness ==
    /\ lastOp.op = "handleSubmit"
    /\ Len(groupReqs) = 1
    /\ groupReqs[1].receivers = <<"a">>
    /\ groupReqs[1].message = ShortBody

\* a key in camelCase form: no separator, no upper-case first letter, no
\* lower-case letter right after a digit, no run of upper-case letters that
\* ends the key or stands before a digit or a third upper-case letter
InCamelCase(key) ==
    /\ \A i \in 1..Len(key) : key[i] # "_"
    /\ key # <<>> => key[1] \notin UpperChars
    /\ \A i \in 1..(Len(key) - 1) :
          /\ ~(key[i] \in DigitChars /\ key[i + 1] \in LowerChars)
          /\ (key[i] \in UpperChars /\ key[i + 1] \in UpperChars)
                => (i + 2 <= Len(key) /\ key[i + 2] \in LowerChars)

\* every key of x, at every level, is in camelCase form
RECURSIVE KeysInCamelCase(_)
KeysInCamelCase(x) ==
    /\ \A i \in 1..Len(x.items) : KeysInCamelCase(x.items[i])
    /\ \A i \in 1..Len(x.entries) :
          /\ InCamelCase(x.entries[i].key)
          /\ KeysInCamelCase(x.entries[i].value)

\* x and y have the same kind and, level by level, the same keys
RECURSIVE SameKeys(_, _)
SameKeys(x, y) ==
    /\ y.t = x.t
    /\ Len(y.items) = Len(x.items)
    /\ \A i \in 1..Len(x.items) : SameKeys(x.items[i], y.items[i])
    /\ Len(y.entries) = Len(x.entries)
    /\ \A i \in 1..Len(x.entries) :
          /\ y.entries[i].key = x.entries[i].key
          /\ SameKeys(x.entries[i].value, y.entries[i].value)

\* y is x but for the names of keys: scalars, null and undefined are what
\* they were, arrays have their length and their elements in their order,
\* and each value of an object of y comes from a value of the object of x
RECURSIVE SameButKeys(_, _)
SameButKeys(x, y) ==
    /\ y.t = x.t
    /\ y.s = x.s
    /\ Len(y.items) = Len(x.items)
    /\ \A i \in 1..Len(x.items) : SameButKeys(x.items[i], y.items[i])
    /\ Len(y.entries) <= Len(x.entries)
    /\ \A j \in 1..Len(y.entries) :
          \E i \in 1..Len(x.entries) :
              SameButKeys(x.entries[i].value, y.entries[j].value)

\* C28: camelCaseObject(snakeCaseObject(x)) has the keys of x at every level
\* when the keys of x are in camelCase form; snakeCaseObject and
\* camelCaseObject leave scalars, null, undefined, the length of arrays and
\* the order of their elements as they are.
C28_CasingRoundTripKeepsKeys ==
    [][/\ (lastOp.op = "snakeCaseObject" /\ lastOp'.op = "camelCaseObject"
              /\ KeysInCamelCase(lastOp.arg.object))
            => SameKeys(lastOp.arg.object, lastOp'.arg.result)
       /\ lastOp'.op \in {"snakeCaseObject", "camelCaseObject"}
            => SameButKeys(lastOp'.arg.object, lastOp'.arg.result)]_vars

\* camelCaseObject has been applied to the snake case form of an object in
\* an object whose keys have two words: the keys are aA and a1 again
C28_Witness ==
    /\ lastOp.op = "camelCaseObject"
    /\ lastOp.arg.object =
          JsObject(<<Entry(<<"a", "_", "a">>,
                JsObject(<<Entry(<<"a", "_", "1">>, JsScalar(<<"7">>))>>))>>)
    /\ lastOp.arg.result =
          JsObject(<<Entry(<<"a", "A">>,
                JsObject(<<Entry(<<"a", "1">>, JsScalar(<<"7">>))>>))>>)

\* C29: a click on an entry of the inbox makes its peer the selected one
\* and, in the same step, leaves the Messages Store with no message, page 1,
\* hasMore false, isReplying false and an empty draft; of the Inbox Store
\* only selectedUser changes.
C29_SelectionResetsMessagesOnly ==
    [][\A username \in Peers :
          handleInboxClick(username) =>
             /\ inbox'.selectedUser = username
             /\ messages'.list = <<>>
             /\ messages'.pageNumber = 1
             /\ ~messages'.hasMore
             /\ ~messages'.isReplying
             /\ messages'.currentMessage = <<>>
             /\ inbox' = [inbox EXCEPT !.selectedUser = username]]_vars

\* after a load, a reply opened and a draft typed, the user has clicked on
\* another entry: the pane holds no message and no draft
C29_Witness ==
    /\ lastOp = Op("handleInboxClick", "b")
    /\ gestures = SendGestures - 3
    /\ inbox.selectedUser = "b"
    /\ Len(inbox.list) >= 2
    /\ messages.list = <<>>
    /\ messages.currentMessage = <<>>
    /\ ~messages.isReplying

\* the requests a step adds to those awaited by the Inbox Store
NewInboxReqs == SubSeq(inboxReqs', Len(inboxReqs) + 1, Len(inboxReqs'))

\* C30: setSearchQuery(text) leaves searchQuery = text and pageNumber = 1,
\* whatever the page was; and a request issued for a search text that has
\* changed (the text whose debounced load is still to come, or the text the
\* step has just set) is a request for page 1.
C30_QueryChangeRequestsPageOne ==
    [][/\ \A value \in Queries :
             handleSearchChange(value) =>
                inbox'.searchQuery = value /\ inbox'.pageNumber = 1
       /\ handleClearSearch => inbox'.searchQuery = "" /\ inbox'.pageNumber = 1
       /\ \A i \in 1..Len(NewInboxReqs) :
             (\/ inbox'.searchQuery # inbox.searchQuery
              \/ searchTimer = NewInboxReqs[i].searchQuery)
                => NewInboxReqs[i].pageNumber = 1]_vars

\* C31: while a fetchInboxList request is awaited the Inbox Store is loading,
\* and while a fetchMessages request is awaited the Messages Store is
\* loading.
C31_LoadingWhileLoadInFlight ==
    /\ inboxReqs # <<>> => inbox.loading
    /\ msgReqs # <<>> => messages.loading

\* the conversation requests issued by the step
NewMsgReqs == SubSeq(msgReqs', Len(msgReqs) + 1, Len(msgReqs'))

\* C32: a click on an inbox entry, the entry of the selected peer included,
\* resets the Messages Store and issues the load of page 1 of that peer's
\* conversation.
C32_ClickLoadsPageOne ==
    [][\A username \in Peers :
          handleInboxClick(username) =>
              /\ Len(msgReqs') >= Len(msgReqs)
              /\ \E k \in 1..Len(NewMsgReqs) : NewMsgReqs[k] = MsgReq(1, username)]_vars

\* C33: when no conversation load and no send is awaited, every message of
\* the Messages Store belongs to the conversation with the selected peer.
C33_QuietListIsOfSelectedPeer ==
    (msgReqs = <<>> /\ sendReqs = <<>> /\ groupReqs = <<>>)
        => OnlyMessagesOf(inbox.selectedUser, messages.list)

\* C34: the local message of a fulfilled group send is prepended to the
\* Messages Store only if the peer selected when the response is handled is
\* among the receivers.
C34_PrependForPeerSelectedAtCompletion ==
    [][\A k \in 1..Len(groupReqs) :
          (GroupResponse(k, TRUE) /\ messages'.list # messages.list)
              => Includes(groupReqs[k].receivers, inbox.selectedUser)]_vars

\* C35: a step that changes the selected peer issues no conversation load of
\* a page beyond the first: the page number reached for the peer selected
\* before is never used for the new one.
C35_NoLaterPageOnSelectionChange ==
    [][inbox'.selectedUser # inbox.selectedUser =>
          /\ Len(msgReqs') >= Len(msgReqs)
          /\ \A k \in 1..Len(NewMsgReqs) : NewMsgReqs[k].pageNumber = 1]_vars

\* pages 1..k of a paged result, one after the other
RECURSIVE PagesUpTo(_, _)
PagesUpTo(pages, k) ==
    IF k = 0 THEN <<>> ELSE PagesUpTo(pages, k - 1) \o pages[k]

\* the list holds exactly the first k pages
HoldsPages(list, pages, k) == k <= Len(pages) /\ list = PagesUpTo(pages, k)

\* C36: no page is skipped.  When nothing is awaited and the items are pages
\* 1..k of the list shown, a page advance requests page k + 1, whether or not
\* an earlier load of that page has failed.
C36_AdvanceRequestsNextMissingPage ==
    /\ [][\A k \in 1..2 :
            (/\ InboxScroll
             /\ inboxReqs = <<>>
             /\ HoldsPages(inbox.list, InboxPages(inbox.searchQuery), k))
                => NewInboxReqs = <<InboxReq(k + 1, inbox.searchQuery)>>]_vars
    /\ [][\A k \in 1..2 :
            (/\ ConversationScroll
             /\ msgReqs = <<>>
             /\ HoldsPages(messages.list, ConversationPages(inbox.selectedUser), k))
                => NewMsgReqs = <<MsgReq(k + 1, inbox.selectedUser)>>]_vars

\* C37: the first render issues exactly one list-inbox request, page 1 of the
\* empty query.
C37_MountIssuesOneInboxRequest ==
    [][Mount => inboxReqs' = <<InboxReq(1, "")>>]_vars

\* C38: after a fulfilled send to a peer whose entry a list load has brought
\* in, that entry has one preview field: the field the load filled holds the
\* truncated body, and there is no second preview field beside it.
C38_OnePreviewField ==
    [][\A k \in 1..Len(sendReqs) :
          SendResponse(k, TRUE) =>
              \A i \in 1..Len(inbox'.list) :
                  inbox'.list[i].withUser = sendReqs[k].receiver =>
                      /\ inbox'.list[i].lastMessage = PreviewOf(sendReqs[k].message)
                      /\ inbox'.list[i].last_message = NoField]_vars

\* C39: a fulfilled send leaves the draft as it is when the draft is no
\* longer the body that was sent: what was typed while the send was awaited
\* is kept.
C39_SendKeepsNewerDraft ==
    [][\A k \in 1..Len(sendReqs) :
          (SendResponse(k, TRUE) /\ messages.currentMessage # sendReqs[k].message)
              => messages'.currentMessage = messages.currentMessage]_vars

====
